---- MODULE Spec2Model ----
(***************************************************************************)
(* Model of api/prediction_utils.py: the rolling-window block builder      *)
(* (block), the threshold label extraction (model_prediction) and the      *)
(* label-table lookup (prediction_label).  The three functions are pure;   *)
(* each has a specification whose Init draws its inputs from bounded sets   *)
(* and whose action applies the function as the code computes it.           *)
(***************************************************************************)
EXTENDS Integers, Sequences, FiniteSets, TLC

\* ------------------------------------------------------------------ bounds
MaxT == 5            \* longest embedding sequence (rows of vggish_features)
MaxWindow == 3       \* largest window argument
MaxHop == 3          \* largest hop argument
FeatDim == 1         \* columns of vggish_features (128 in the deployed model)
MaxN == 2            \* most blocks handed to model_prediction
NumClasses == 2      \* columns of the prediction (527 in the deployed model)
MaxProb == 1         \* probabilities and thresholds are k / MaxProb, k in 0..MaxProb
MaxRows == 2         \* most rows of the label table

EmbVals == {0, 255}                 \* quantized embedding values used as inputs
Names == {"Speech", "Music"}        \* text labels used as inputs
NoTensor == [shape |-> <<>>, data |-> <<>>]

VARIABLES
    \* block
    vggish_features,   \* [shape |-> <<T, F>>, data |-> T rows of F values]
    window, hop,       \* arguments of block
    index_hop,         \* the start offsets block computed
    taken,             \* the set of row indices np.take read
    rolling_block,     \* the returned tensor [shape, data]
    block_outcome,     \* "pending", "returned" or "IndexError"
    \* model_prediction
    block_n,           \* block_10s.shape[0]
    model_out,         \* what model.predict yields for block_10s (frozen weights)
    threshold,         \* the threshold of the last call
    top_preds,         \* the returned list of <<i, class indices>>
    prev_threshold,    \* threshold of the call before the last one
    prev_top_preds,    \* what that call returned
    pred_outcome,      \* "pending", "returned", "returned twice", "PredictError"
    \* prediction_label
    preds,             \* argument: list of <<x, y>>
    series,            \* the labels_col column of the label table
    labels,            \* the returned dict (a function on its keys)
    label_outcome      \* "pending", "returned" or "KeyError"

blockVars == <<vggish_features, window, hop, index_hop, taken, rolling_block,
               block_outcome>>
predVars == <<block_n, model_out, threshold, top_preds, prev_threshold,
              prev_top_preds, pred_outcome>>
labelVars == <<preds, series, labels, label_outcome>>
vars == <<blockVars, predVars, labelVars>>

\* ------------------------------------------------------------------ helpers
\* ceil(a / b) for b > 0, any integer a
CeilDiv(a, b) == -((-a) \div b)

\* All sequences over S of length at most n
SeqsUpTo(S, n) == UNION {[1..k -> S] : k \in 0..n}

Range(s) == {s[i] : i \in 1..Len(s)}

\* ------------------------------------------------------------------ numpy
RECURSIVE ArangeInclusive(_, _, _)
ArangeInclusive(start, stop, step) ==
    IF start <= stop
    THEN <<start>> \o ArangeInclusive(start + step, stop, step)
    ELSE <<>>

\* np.arange(start, stop, step) for step > 0: start, start+step, ... while
\* the value is below stop
RECURSIVE Arange(_, _, _)
Arange(start, stop, step) ==
    IF start < stop
    THEN <<start>> \o Arange(start + step, stop, step)
    ELSE <<>>

BroadcastAddRowNumber(index_window, hops) ==
    [shape |-> <<Len(hops), Len(index_window)>>,
     data |-> [i \in 1..Len(hops) |->
                 [k \in 1..Len(index_window) |-> index_window[k] + (i - 1)]]]

\* index_window + index_hop with index_hop of shape (N, 1): shape (N, window)
BroadcastAdd(index_window, hops) ==
    [shape |-> <<Len(hops), Len(index_window)>>,
     data |-> [i \in 1..Len(hops) |->
                 [k \in 1..Len(index_window) |-> index_window[k] + hops[i]]]]

\* the set of indices an index array holds
IndexSet(idx) ==
    {idx.data[i][k] : i \in 1..idx.shape[1], k \in 1..idx.shape[2]}

\* np.take(a, idx, axis=0) in the default mode 'raise': an index outside
\* -T..T-1 raises IndexError, a negative one counts from the end
TakeOK(a, idx) ==
    \A j \in IndexSet(idx) : -a.shape[1] <= j /\ j < a.shape[1]

Take(a, idx) ==
    [shape |-> <<idx.shape[1], idx.shape[2], a.shape[2]>>,
     data |-> [i \in 1..idx.shape[1] |->
                 [k \in 1..idx.shape[2] |->
                    a.data[((idx.data[i][k] + a.shape[1]) % a.shape[1]) + 1]]]]

\* ------------------------------------------------------------------ block
\* np.arange(window)
IndexWindow(w) == Arange(0, w, 1)

IndexHopInclusive(features, w, h) ==
    ArangeInclusive(0, features.shape[1] - w, h)

\* np.arange(0, vggish_features.shape[0] - window, hop)
IndexHop(features, w, h) == Arange(0, features.shape[1] - w, h)

BlockIndices(features, w, h) ==
    BroadcastAdd(IndexWindow(w), IndexHop(features, w, h))

Features == UNION {
    {[shape |-> <<T, FeatDim>>, data |-> d] :
        d \in [1..T -> [1..FeatDim -> EmbVals]]} : T \in 0..MaxT}

InitBlock ==
    /\ vggish_features \in Features
    /\ window \in 1..MaxWindow
    /\ hop \in 1..MaxHop
    /\ index_hop = <<>>
    /\ taken = {}
    /\ rolling_block = NoTensor
    /\ block_outcome = "pending"

IdleBlock ==
    /\ vggish_features = [shape |-> <<0, FeatDim>>, data |-> <<>>]
    /\ window = 1
    /\ hop = 1
    /\ index_hop = <<>>
    /\ taken = {}
    /\ rolling_block = NoTensor
    /\ block_outcome = "pending"

Block ==
    /\ block_outcome = "pending"
    /\ LET idx == BlockIndices(vggish_features, window, hop) IN
        /\ index_hop' = IndexHop(vggish_features, window, hop)
        /\ taken' = IndexSet(idx)
        /\ IF TakeOK(vggish_features, idx)
           THEN /\ rolling_block' = Take(vggish_features, idx)
                /\ block_outcome' = "returned"
           ELSE /\ rolling_block' = NoTensor
                /\ block_outcome' = "IndexError"
    /\ UNCHANGED <<vggish_features, window, hop, predVars, labelVars>>

\* ------------------------------------------------------- model_prediction
\* A probability is k / MaxProb, held as the integer k; so is a threshold.
Probs == 0..MaxProb

GreaterEqual(p, th) == p >= th

Less(p, th) == p < th

\* prediction > threshold, element by element
Greater(p, th) == p > th

\* np.where(mask) of a 2-D array: the (row, column) pairs of the true
\* entries in row-major order, rows and columns counted from 0
RECURSIVE WhereFrom(_, _, _)
WhereFrom(prediction, th, flat) ==
    LET n == prediction.shape[1]
        c == prediction.shape[2]
        i == flat \div c
        j == flat % c
    IN  IF flat >= n * c THEN <<>>
        ELSE IF Greater(prediction.data[i + 1][j + 1], th)
             THEN <<(<<i, j>>)>> \o WhereFrom(prediction, th, flat + 1)
             ELSE WhereFrom(prediction, th, flat + 1)

RECURSIVE WhereColumnMajorFrom(_, _, _)
WhereColumnMajorFrom(prediction, th, flat) ==
    LET n == prediction.shape[1]
        c == prediction.shape[2]
        j == (c - 1) - (flat % c)
        i == flat \div c
    IN  IF flat >= n * c THEN <<>>
        ELSE IF Greater(prediction.data[i + 1][j + 1], th)
             THEN <<(<<i, j>>)>> \o WhereColumnMajorFrom(prediction, th, flat + 1)
             ELSE WhereColumnMajorFrom(prediction, th, flat + 1)

WhereReversed(prediction, th) == WhereColumnMajorFrom(prediction, th, 0)

Where(prediction, th) == WhereFrom(prediction, th, 0)

\* find_label_index[0] and find_label_index[1]
TimeIndex(found) == [n \in 1..Len(found) |-> found[n][1]]

PredictedLabel(found) == [n \in 1..Len(found) |-> found[n][2]]

\* predicted_label[idx] for the boolean mask idx == (i == time_index)
RECURSIVE MaskSelect(_, _, _)
MaskSelect(values, keys, i) ==
    IF values = <<>> THEN <<>>
    ELSE IF Head(keys) = i
         THEN <<Head(values)>> \o MaskSelect(Tail(values), Tail(keys), i)
         ELSE MaskSelect(Tail(values), Tail(keys), i)

\* the loop over range(block_10s.shape[0]) that builds top_preds
RECURSIVE TopPredsLoop(_, _, _, _)
TopPredsLoop(i, n, time_index, predicted_label) ==
    IF i >= n THEN <<>>
    ELSE <<(<<i, MaskSelect(predicted_label, time_index, i)>>)>>
         \o TopPredsLoop(i + 1, n, time_index, predicted_label)

RECURSIVE TopPredsSkipEmpty(_, _, _, _)
TopPredsSkipEmpty(i, n, time_index, predicted_label) ==
    IF i >= n THEN <<>>
    ELSE (IF MaskSelect(predicted_label, time_index, i) = <<>> THEN <<>>
          ELSE <<(<<i, MaskSelect(predicted_label, time_index, i)>>)>>)
         \o TopPredsSkipEmpty(i + 1, n, time_index, predicted_label)

TopPredsFrom(i, n, time_index, predicted_label) ==
    TopPredsLoop(i, n, time_index, predicted_label)

model_prediction(n, prediction, th) ==
    LET find_label_index == Where(prediction, th)
        time_index == TimeIndex(find_label_index)
        predicted_label == PredictedLabel(find_label_index)
    IN  TopPredsFrom(0, n, time_index, predicted_label)

Predictions(n) ==
    {[shape |-> <<n, NumClasses>>, data |-> d] :
        d \in [1..n -> [1..NumClasses -> Probs]]}

InitPred ==
    /\ block_n \in 0..MaxN
    /\ model_out \in Predictions(block_n)
    /\ threshold = 0
    /\ prev_threshold = 0
    /\ top_preds = <<>>
    /\ prev_top_preds = <<>>
    /\ pred_outcome = "pending"

IdlePred ==
    /\ block_n = 0
    /\ model_out = [shape |-> <<0, NumClasses>>, data |-> <<>>]
    /\ threshold = 0
    /\ prev_threshold = 0
    /\ top_preds = <<>>
    /\ prev_top_preds = <<>>
    /\ pred_outcome = "pending"

\* What model.predict does with a batch of no blocks is the library's
\* choice: it returns an empty prediction or raises.
PredictOutcomes(n) ==
    IF n = 0 THEN {"returned", "PredictError"} ELSE {"returned"}

\* model_prediction(model, block_10s, th): the first call on this input
ModelPrediction ==
    /\ pred_outcome = "pending"
    /\ \E th \in Probs, out \in PredictOutcomes(block_n) :
        /\ threshold' = th
        /\ pred_outcome' = out
        /\ top_preds' = IF out = "returned"
                        THEN model_prediction(block_n, model_out, th)
                        ELSE <<>>
    /\ UNCHANGED <<block_n, model_out, prev_threshold, prev_top_preds,
                   blockVars, labelVars>>

\* a second call with the same model and block_10s and another threshold:
\* the weights are frozen, so model.predict yields the same tensor
ModelPredictionAgain ==
    /\ pred_outcome = "returned"
    /\ \E th \in Probs :
        /\ threshold' = th
        /\ top_preds' = model_prediction(block_n, model_out, th)
    /\ prev_threshold' = threshold
    /\ prev_top_preds' = top_preds
    /\ pred_outcome' = "returned twice"
    /\ UNCHANGED <<block_n, model_out, blockVars, labelVars>>

\* ------------------------------------------------------- prediction_label
\* series[y] for a list y of row labels on the default RangeIndex
\* 0..len-1: the values at those rows in the order of y; a label that is
\* not a row raises KeyError (pandas 1.0 and later)
RowsFound(col, y) == \A n \in 1..Len(y) : y[n] \in 0..(Len(col) - 1)

Lookup(col, y) == [n \in 1..Len(y) |-> col[y[n] + 1]]

\* the dict comprehension {x: list(series[y]) for x, y in preds}: entries
\* are added in order; the first KeyError ends the call with no dict
RECURSIVE LabelsSkipMissing(_, _, _)
LabelsSkipMissing(col, ps, acc) ==
    IF ps = <<>> THEN [outcome |-> "returned", value |-> acc]
    ELSE LET x == Head(ps)[1]
             y == Head(ps)[2]
         IN  IF ~RowsFound(col, y)
             THEN LabelsSkipMissing(col, Tail(ps), acc)
             ELSE LabelsSkipMissing(col, Tail(ps),
                     [k \in (DOMAIN acc) \cup {x} |->
                        IF k = x THEN Lookup(col, y) ELSE acc[k]])

RECURSIVE LabelsFrom(_, _, _)
LabelsFrom(col, ps, acc) ==
    IF ps = <<>> THEN [outcome |-> "returned", value |-> acc]
    ELSE LET x == Head(ps)[1]
             y == Head(ps)[2]
         IN  IF ~RowsFound(col, y)
             THEN [outcome |-> "KeyError", value |-> <<>>]
             ELSE LabelsFrom(col, Tail(ps),
                     [k \in (DOMAIN acc) \cup {x} |->
                        IF k = x THEN Lookup(col, y) ELSE acc[k]])

EmptyDict == [k \in {} |-> <<>>]

prediction_label(col, ps) == LabelsFrom(col, ps, EmptyDict)

\* class-index lists without repetition, in any order
ClassLists ==
    {y \in SeqsUpTo(0..(NumClasses - 1), NumClasses) :
        \A a, b \in 1..Len(y) : a # b => y[a] # y[b]}

PredsInputs ==
    UNION {{[i \in 1..n |-> <<i - 1, ys[i]>>] : ys \in [1..n -> ClassLists]} :
           n \in 0..MaxN}

InitLabel ==
    /\ preds \in PredsInputs
    /\ series \in SeqsUpTo(Names, MaxRows)
    /\ labels = EmptyDict
    /\ label_outcome = "pending"

IdleLabel ==
    /\ preds = <<>>
    /\ series = <<>>
    /\ labels = EmptyDict
    /\ label_outcome = "pending"

PredictionLabel ==
    /\ label_outcome = "pending"
    /\ LET r == prediction_label(series, preds) IN
        /\ label_outcome' = r.outcome
        /\ labels' = r.value
    /\ UNCHANGED <<preds, series, blockVars, predVars>>

\* --------------------------------------------------------- specifications
\* block on every bounded input
Init == InitBlock /\ IdlePred /\ IdleLabel

Next == Block

Spec == Init /\ [][Next]_vars

\* model_prediction on every bounded prediction tensor, called once or twice
InitP == IdleBlock /\ InitPred /\ IdleLabel

NextP == ModelPrediction \/ ModelPredictionAgain

SpecPred == InitP /\ [][NextP]_vars

\* prediction_label on every bounded preds list and label table
InitL == IdleBlock /\ IdlePred /\ InitLabel

NextL == PredictionLabel

SpecLabel == InitL /\ [][NextL]_vars

\* ----------------------------------------------------------------- claims
T == vggish_features.shape[1]

BlockDone == block_outcome # "pending"

PredDone == pred_outcome \in {"returned", "returned twice"}

LabelDone == label_outcome # "pending"

\* C1: for T >= window and hop >= 1, block returns a tensor of shape
\* (N, window, F) with N = ceil((T - window) / hop), and its start offsets
\* are exactly the multiples of hop below T - window, in order; T=20,
\* window=10, hop=5 gives the offsets [0, 5].
C1_ShapeAndOffsets ==
    /\ (BlockDone /\ T >= window) =>
        LET N == CeilDiv(T - window, hop) IN
        /\ block_outcome = "returned"
        /\ rolling_block.shape = <<N, window, vggish_features.shape[2]>>
        /\ Len(rolling_block.data) = N
        /\ \A i \in 1..N :
            /\ Len(rolling_block.data[i]) = window
            /\ \A k \in 1..window :
                Len(rolling_block.data[i][k]) = vggish_features.shape[2]
        /\ Len(index_hop) = N
        /\ \A i \in 1..N : index_hop[i] = (i - 1) * hop
        /\ Range(index_hop) = {s \in 0..T : s % hop = 0 /\ s < T - window}
    /\ BlockDone =>
        IndexHop([shape |-> <<20, FeatDim>>, data |-> <<>>], 10, 5) = <<0, 5>>

\* C1 witness: T=5, window=2, hop=2, where (T - window) / hop is not whole
C1_Witness ==
    /\ block_outcome = "returned"
    /\ T = 5 /\ window = 2 /\ hop = 2
    /\ index_hop = <<0, 2>>
    /\ rolling_block.shape = <<2, 2, FeatDim>>

\* C2: block i is the contiguous run seq[i*hop : i*hop + window]: element k
\* of block i is seq[i*hop + k].
C2_BlockIsContiguousRun ==
    block_outcome = "returned" =>
        \A i \in 0..(rolling_block.shape[1] - 1) :
            \A k \in 0..(window - 1) :
                rolling_block.data[i + 1][k + 1]
                    = vggish_features.data[i * hop + k + 1]

\* C2 witness: two blocks of two rows, hop 2, with different contents
C2_Witness ==
    /\ block_outcome = "returned"
    /\ rolling_block.shape[1] >= 2
    /\ window = 2 /\ hop = 2
    /\ rolling_block.data[1] # rolling_block.data[2]
    /\ rolling_block.data[1][1] # rolling_block.data[1][2]

\* C3: whenever T <= window, block ends in InsufficientLengthError and
\* returns no block tensor.
C3_RejectsShortInput ==
    (BlockDone /\ T <= window) =>
        /\ block_outcome = "InsufficientLengthError"
        /\ rolling_block = NoTensor

\* C10: for T > window, every row index block reads lies in 0..T-2: none is
\* outside the sequence and the last row, T-1, is in no block.
C10_ReadsStayBelowLastRow ==
    (BlockDone /\ T > window) =>
        /\ block_outcome = "returned"
        /\ taken \subseteq 0..(T - 2)
        /\ \A i \in 1..Len(index_hop) : index_hop[i] < T - window

\* C10 witness: a call with T > window that reads row T-2
C10_Witness ==
    /\ block_outcome = "returned"
    /\ T > window
    /\ (T - 2) \in taken
    /\ Len(index_hop) >= 2

\* the class-index list of entry n of a top_preds list
ListOf(tp, n) == tp[n][2]

\* C4: the list returned for block i holds class j exactly when
\* probability[i][j] > threshold (strictly); no class of another block
\* leaks in and no class appears twice.
C4_StrictThresholdSelection ==
    PredDone =>
        \A n \in 1..Len(top_preds) :
            LET i == top_preds[n][1]
                y == ListOf(top_preds, n)
            IN  /\ i \in 0..(block_n - 1)
                /\ \A j \in 0..(NumClasses - 1) :
                    (j \in Range(y)) <=> (model_out.data[i + 1][j + 1] > threshold)
                /\ Range(y) \subseteq 0..(NumClasses - 1)
                /\ Cardinality(Range(y)) = Len(y)

\* C4 witness: a block with one probability equal to the threshold (not
\* selected) and one above it (selected), beside a block with another list
C4_Witness ==
    /\ PredDone
    /\ block_n = 2
    /\ \E j \in 1..NumClasses : model_out.data[1][j] = threshold
    /\ \E j \in 1..NumClasses : model_out.data[1][j] > threshold
    /\ ListOf(top_preds, 1) # <<>>
    /\ ListOf(top_preds, 1) # ListOf(top_preds, 2)

\* C5: the output has exactly N entries with keys 0, 1, ..., N-1, each
\* once, blocks with an empty label list included.
C5_LabelCompleteness ==
    PredDone =>
        /\ Len(top_preds) = block_n
        /\ \A n \in 1..Len(top_preds) : top_preds[n][1] = n - 1

\* C5 witness: two blocks, the first with no label, the second with one
C5_Witness ==
    /\ PredDone
    /\ block_n = 2
    /\ Len(top_preds) = 2
    /\ ListOf(top_preds, 1) = <<>>
    /\ ListOf(top_preds, 2) # <<>>

\* C6: for one probability tensor and thresholds t1 <= t2, every block's
\* label set at t2 is a subset of its set at t1, and no larger.
C6_ThresholdMonotonicity ==
    pred_outcome = "returned twice" =>
        \A n \in 1..block_n :
            LET cur == ListOf(top_preds, n)
                old == ListOf(prev_top_preds, n)
            IN  /\ prev_threshold <= threshold =>
                    /\ Range(cur) \subseteq Range(old)
                    /\ Len(cur) <= Len(old)
                /\ threshold <= prev_threshold =>
                    /\ Range(old) \subseteq Range(cur)
                    /\ Len(old) <= Len(cur)

\* C6 witness: the threshold was raised and a block lost a label
C6_Witness ==
    /\ pred_outcome = "returned twice"
    /\ prev_threshold < threshold
    /\ \E n \in 1..block_n :
        Len(ListOf(top_preds, n)) < Len(ListOf(prev_top_preds, n))

\* C7: within every block's list the class indices are strictly ascending.
C7_AscendingClassOrder ==
    PredDone =>
        \A n \in 1..Len(top_preds) :
            LET y == ListOf(top_preds, n) IN
            \A a, b \in 1..Len(y) : a < b => y[a] < y[b]

\* C7 witness: a block whose list holds two classes
C7_Witness ==
    /\ PredDone
    /\ \E n \in 1..Len(top_preds) : Len(ListOf(top_preds, n)) >= 2

\* some class index of some entry of preds is no row of the label table
SomeIndexOutOfRange ==
    \E n \in 1..Len(preds) :
        \E m \in 1..Len(preds[n][2]) :
            preds[n][2][m] \notin 0..(Len(series) - 1)

\* C8: prediction_label fails with a lookup error whenever a class index is
\* outside the table's rows, and then returns no mapping, not even for the
\* blocks that could be resolved; otherwise it returns, for the same block
\* keys, the table's name of each class index in the order of the list.
C8_LookupAllOrNothing ==
    LabelDone =>
        IF SomeIndexOutOfRange
        THEN /\ label_outcome = "KeyError"
             /\ DOMAIN labels = {}
        ELSE /\ label_outcome = "returned"
             /\ DOMAIN labels = {preds[n][1] : n \in 1..Len(preds)}
             /\ \A n \in 1..Len(preds) :
                 /\ Len(labels[preds[n][1]]) = Len(preds[n][2])
                 /\ \A m \in 1..Len(preds[n][2]) :
                     labels[preds[n][1]][m] = series[preds[n][2][m] + 1]

\* C8 witness: the first block resolves, the second does not, and the call
\* fails
C8_Witness ==
    /\ label_outcome = "KeyError"
    /\ Len(preds) = 2
    /\ preds[1][2] # <<>>
    /\ RowsFound(series, preds[1][2])
    /\ ~RowsFound(series, preds[2][2])

====
